---- MODULE Spec2Model ----
(***************************************************************************)
(* Model of the monitoring-and-alerting engine of domain-manager:          *)
(* server/services/monitoring.js (the four cron sweeps),                   *)
(* server/services/notificationService.js (the dispatch functions) and    *)
(* the tables of server/config/database.js they read and write.            *)
(*                                                                         *)
(* Time is counted in ticks; a calendar day is DayTicks ticks long and     *)
(* all dates are UTC.  A DATE column holds a day number, a TIMESTAMP       *)
(* column a tick number.  A loop iteration of a sweep is one action; the   *)
(* iterations of checkAndSendAlerts, which read the log other sweeps write *)
(* to, are split at the await between the gate query and the dispatch.     *)
(***************************************************************************)
EXTENDS Integers, Sequences, FiniteSets, Bags, TLC

\* ------------------------------------------------------------------ bounds
NumDomains == 2      \* rows of the domains table, ids 1..NumDomains
NumUsers == 2        \* rows of the users table, ids 1..NumUsers
DayTicks == 2        \* ticks per calendar day (time granularity)
MaxTime == 2         \* the clock stops at this tick
MaxFaults == 1       \* failures injected in a run: a query or a probe that rejects
MaxRequests == 2      \* API requests of one run

\* ------------------------------------------------------- program constants
AlertWindowDays == 30     \* daysUntilExpiry <= 30, INTERVAL '30 days'
DefaultThreshold == 30    \* days_before_expiry INTEGER DEFAULT 30
MaxThreshold == 90        \* daysBeforeExpiry isInt({min: 1, max: 90})
CooldownTicks == DayTicks \* INTERVAL '24 hours'

Undefined == -1           \* a property the row object does not have

DomainIds == 1..NumDomains
Jobs == {"daily", "ssl", "uptime", "alert"}
AlertTypes == {"domain_expiry", "ssl_expiry", "domain_downtime"}

\* Input sets the initial state is drawn from.
ExpiryDates == {0, 20, 45}                \* domains.expiry_date
Thresholds == {1, 2 * DefaultThreshold}   \* alerts.days_before_expiry
CertTimes == {DayTicks + 1, 45 * DayTicks}  \* valid_to of the presented certificate

\* ----------------------------------------------------------------- tables
\* users(id, email NOT NULL, phone): every user has an email address, odd
\* ids also have a phone number.
UserOf(u) == [email |-> TRUE, phone |-> (u % 2 = 1)]

OwnerOf(d) == ((d - 1) % NumUsers) + 1

\* ssl_certificates.id is a SERIAL of its own: certificates were first
\* checked in the reverse order of the domains.
CertIdOf(d) == NumDomains + 1 - d

VARIABLES
    now,        \* the clock, in ticks
    due,        \* jobs whose cron expression matched and has not fired yet
    faults,     \* failures injected so far
    down,       \* hosts that do not answer the reachability probe
    hostValidTo,\* valid_to of the certificate the hosts present
    domains,    \* domains table: id -> [user_id, expiry_date, status]
    alerts,     \* alerts table: set of rows
    certs,      \* ssl_certificates table: set of rows
    log,        \* notification_logs table: a bag of rows
    pc,         \* per job: "idle", "loop", "send", "sslload", "sslloop", "sslsend"
    rows,       \* per job: the result rows not yet iterated over
    days,       \* per job: daysUntilExpiry of the iteration in flight
    contacts,   \* every transport call made: [target, type, channel, at, enabled]
    lastDispatch, \* arguments and result of the latest dispatch call
    errors,     \* console.error calls of the sweeps: [job, target]
    armed,      \* jobs whose cron timer is armed
    probe,      \* input and outcome of the latest probe call made on its own
    pending,    \* API requests between two of their awaits
    resp,       \* the latest API response: [route, status, ...]
    reqs,       \* API requests received so far
    serial      \* next value of alerts_id_seq

vars == <<now, due, faults, down, hostValidTo, domains, alerts,
          certs, log, pc, rows, days, contacts, lastDispatch, errors,
          armed, probe, pending, resp, reqs, serial>>

\* ---------------------------------------------------------------- helpers
\* Math.ceil(a / b) for b > 0 and any integer a.
CeilDiv(a, b) == -((-a) \div b)

\* CURRENT_DATE
Today == now \div DayTicks

\* The difference rounded down instead of up.
DaysUntilFloor(date, t) == (date * DayTicks - t) \div DayTicks

\* Math.ceil((new Date(date) - new Date()) / (1000 * 60 * 60 * 24))
DaysUntil(date, t) == CeilDiv(date * DayTicks - t, DayTicks)

\* The result rows of a query, per domain in ascending id order: f[d] is the
\* sequence of rows domain d contributes.
RECURSIVE ConcatUpTo(_, _)
ConcatUpTo(f, n) == IF n = 0 THEN <<>> ELSE ConcatUpTo(f, n - 1) \o f[n]

\* The rows of a set of alert rules in ascending id order.
RECURSIVE RulesInOrder(_)
RulesInOrder(S) ==
    IF S = {} THEN <<>>
    ELSE LET m == CHOOSE x \in S : \A y \in S : x.id <= y.id
         IN  <<m>> \o RulesInOrder(S \ {m})

\* ------------------------------------------------------------ result rows
\* SELECT d.*, u.email, u.phone FROM domains d JOIN users u
DomainRow(d) ==
    [id |-> d, domain_id |-> Undefined, user_id |-> domains[d].user_id,
     expiry_date |-> domains[d].expiry_date, valid_until |-> Undefined,
     days_before_expiry |-> Undefined,
     email_enabled |-> FALSE, sms_enabled |-> FALSE,
     email |-> UserOf(domains[d].user_id).email,
     phone |-> UserOf(domains[d].user_id).phone]

\* SELECT d.*, s.*, ...: a column of s overwrites the column of d with the
\* same name in the row object, so id is the certificate's id.
WithCert(r, s) ==
    [r EXCEPT !.id = s.id, !.domain_id = s.domain_id, !.valid_until = s.valid_until]

\* ..., a.days_before_expiry, a.email_enabled, a.sms_enabled ... JOIN alerts a
WithRule(r, a) ==
    [r EXCEPT !.days_before_expiry = a.days_before_expiry,
              !.email_enabled = a.email_enabled, !.sms_enabled = a.sms_enabled]

ActiveIds == {d \in DOMAIN domains : domains[d].status = "active"}

\* WHERE d.status = 'active'
ActiveDomains ==
    ConcatUpTo([d \in DomainIds |->
                  IF d \in ActiveIds THEN <<DomainRow(d)>> ELSE <<>>], NumDomains)

\* ------------------------------------------------ notification dispatch
Outcome(method, ok) ==
    [method |-> method, status |-> IF ok THEN "success" ELSE "failed"]

\* A number passed where the user object is expected: reading .email or
\* .phone of a number yields undefined.
AsObject(n) == [email |-> FALSE, phone |-> FALSE]

\* Both transports in one try block: a throwing email transport ends the
\* attempt before the SMS transport is called.
sendDomainExpiryAlertOneTry(domain, user, daysUntilExpiry, emailOk, smsOk) ==
    IF user.email /\ ~emailOk THEN <<Outcome("email", FALSE)>>
    ELSE (IF user.email THEN <<Outcome("email", TRUE)>> ELSE <<>>)
            \o (IF user.phone THEN <<Outcome("sms", smsOk)>> ELSE <<>>)

\* sendDomainExpiryAlert(domain, user, daysUntilExpiry): emailOk and smsOk
\* say whether sendEmailAlert and sendSMSAlert return or throw.
sendDomainExpiryAlert(domain, user, daysUntilExpiry, emailOk, smsOk) ==
    (IF user.email THEN <<Outcome("email", emailOk)>> ELSE <<>>)
        \o (IF user.phone THEN <<Outcome("sms", smsOk)>> ELSE <<>>)

\* sendSSLExpiryAlert(domain, sslCert, user, daysUntilExpiry)
sendSSLExpiryAlert(domain, sslCert, user, daysUntilExpiry, emailOk, smsOk) ==
    (IF user.email THEN <<Outcome("email", emailOk)>> ELSE <<>>)
        \o (IF user.phone THEN <<Outcome("sms", smsOk)>> ELSE <<>>)

\* sendDomainDowntimeAlert(domain, user, error)
sendDomainDowntimeAlert(domain, user, emailOk, smsOk) ==
    (IF user.email THEN <<Outcome("email", emailOk)>> ELSE <<>>)
        \o (IF user.phone THEN <<Outcome("sms", smsOk)>> ELSE <<>>)

Methods(results) == {results[i].method : i \in 1..Len(results)}

NoDispatch ==
    [fn |-> "none", domain |-> 1, user |-> AsObject(0), emailOk |-> TRUE,
     smsOk |-> TRUE, returned |-> FALSE, results |-> <<>>]

\* Whether a rule among those matched enables the channel.
Enabled(method, rules) ==
    \E f \in rules : IF method = "email" THEN f.email_enabled ELSE f.sms_enabled

\* The state after a dispatch call of a sweep returned: every channel it
\* attempted counts as contacted.
Dispatched(target, type, results, rules) ==
    contacts' = contacts \cup
        {[target |-> target, type |-> type, channel |-> m, at |-> now,
          enabled |-> Enabled(m, rules)] : m \in Methods(results)}

\* ---------------------------------------------------------------- storage
\* INSERT INTO notification_logs (user_id, domain_id, type, method, status,
\* sent_at) VALUES ($1, $2, $3, 'automated', 'sent', CURRENT_TIMESTAMP);
\* domain_id REFERENCES domains(id).
LogEntry(user_id, domain_id, type) ==
    [user_id |-> user_id, domain_id |-> domain_id, type |-> type,
     method |-> "automated", status |-> "sent", sent_at |-> now]

InsertOk(entry) == entry.domain_id \in DOMAIN domains

\* The insert that keeps the newest entry only.
InsertLatestOnly(entry) == SetToBag({entry})

Insert(entry) == log (+) SetToBag({entry})

\* SELECT id FROM notification_logs WHERE domain_id = $1 AND type = $2
\* AND sent_at > CURRENT_TIMESTAMP - INTERVAL '24 hours'
RecentNotification(domain_id, type) ==
    {e \in BagToSet(log) : /\ e.domain_id = domain_id
                           /\ e.type = type
                           /\ e.sent_at > now - CooldownTicks}

\* SELECT * FROM alerts WHERE domain_id = $1 AND type = $2
\* AND days_before_expiry >= $3
MatchingRules(domain_id, type, daysUntilExpiry) ==
    {a \in alerts : /\ a.domain_id = domain_id
                    /\ a.type = type
                    /\ a.days_before_expiry >= daysUntilExpiry}

Flags(S) == {[email_enabled |-> a.email_enabled, sms_enabled |-> a.sms_enabled] : a \in S}

Logged(job, target) == errors' = errors \cup {[job |-> job, target |-> target]}

\* The classification with the boundary instant counted as expired.
CertStatusInclusive(validTo, t) ==
    IF validTo <= t THEN "expired"
    ELSE IF validTo < t + 30 * DayTicks THEN "expiring_soon"
    ELSE "valid"

\* The status checkWithTLS derives from the certificate's valid_to.
CertStatusTLS(validTo, t) ==
    IF validTo < t THEN "expired"
    ELSE IF validTo < t + 30 * DayTicks THEN "expiring_soon"
    ELSE "valid"

\* The status checkSSLCertificate derives from the certificate's valid_to.
CertStatus(validTo, t) ==
    IF validTo < t THEN "expired"
    ELSE IF validTo < t + 30 * DayTicks THEN "expiring_soon"
    ELSE "valid"

\* validUntil.toISOString().split('T')[0]: the calendar date of valid_to.
DateOf(t) == t \div DayTicks

\* ------------------------------------------------------------ environment
TypeIndex(t) == CASE t = "domain_expiry" -> 1 [] t = "ssl_expiry" -> 2 [] OTHER -> 3

\* The rule of type t of domain d: the schema's default flags for a user
\* with a phone number, SMS only for the others.
RuleOf(d, t, thr) ==
    [id |-> 3 * (d - 1) + TypeIndex(t), user_id |-> OwnerOf(d), domain_id |-> d,
     type |-> t, days_before_expiry |-> thr,
     email_enabled |-> UserOf(OwnerOf(d)).phone,
     sms_enabled |-> ~UserOf(OwnerOf(d)).phone]

\* Domain 1 has a rule of every type, the others a domain_expiry rule only.
RuleTypesOf(d) == IF d = 1 THEN AlertTypes ELSE {"domain_expiry"}

\* cron expressions at the clock's granularity: '0 9 * * *' once a day in
\* the tick that holds 09:00, the others in every tick.
CronMatches(job, t) ==
    IF job = "daily" THEN t % DayTicks = (9 * DayTicks) \div 24 ELSE TRUE

\* The timers that fire in tick t: those armed whose expression matches.
DueAt(t) == {j \in armed : CronMatches(j, t)}

NoProbe == [fn |-> "none"]

NoResponse ==
    [n |-> 0, req |-> [route |-> "none", user |-> 0, target |-> 0, body |-> <<>>],
     status |-> 0, probed |-> "none"]

\* No probe call of its own and no API request so far.
NoRequests ==
    /\ probe = NoProbe
    /\ pending = {}
    /\ resp = NoResponse
    /\ reqs = 0
    /\ serial = 3 * NumDomains + 1

InitTables ==
    /\ down \in {{1}, DomainIds}
    /\ hostValidTo \in CertTimes
    /\ \E e \in [DomainIds -> ExpiryDates] :
         domains = [d \in DomainIds |->
                      [user_id |-> OwnerOf(d), expiry_date |-> e[d], status |-> "active"]]
    /\ \E thr \in Thresholds :
         alerts = UNION {{RuleOf(d, t, thr) : t \in RuleTypesOf(d)} : d \in DomainIds}
    /\ certs = {[id |-> CertIdOf(d), domain_id |-> d,
                 valid_until |-> DateOf(hostValidTo),
                 status |-> CertStatus(hostValidTo, 0)] : d \in DomainIds}
    /\ log = EmptyBag

\* The process once the module is loaded: the clock at 0, no sweep running.
Booted ==
    /\ NoRequests
    /\ now = 0
    /\ InitTables
    /\ pc = [j \in Jobs |-> "idle"]
    /\ rows = [j \in Jobs |-> <<>>]
    /\ days = [j \in Jobs |-> 0]
    /\ contacts = {}
    /\ lastDispatch = NoDispatch
    /\ errors = {}

\* The process after startMonitoring(), called before the first tick's timers.
Started ==
    /\ armed = Jobs
    /\ due = DueAt(0)
    /\ Booted

Init == Started /\ faults = 0

api == <<probe, pending, resp, reqs, serial>>

env == <<down, hostValidTo, alerts, lastDispatch, armed, api>>

\* Time passes once every job whose cron expression matched has fired and
\* returned: a sweep lasts seconds, a step of the clock is 24 / DayTicks hours.
Tick ==
    /\ now < MaxTime
    /\ due = {}
    /\ \A j \in Jobs : pc[j] = "idle"
    /\ now' = now + 1
    /\ due' = DueAt(now + 1)
    /\ UNCHANGED <<faults, env, domains, certs, log, pc, rows, days, contacts, errors>>

\* The failure points of an action: "none", or one of its awaits rejecting,
\* while the run's failures last.
FaultPoints(points) == {"none"} \cup (IF faults < MaxFaults THEN points ELSE {})

Fault(f) == faults' = faults + (IF f = "none" THEN 0 ELSE 1)

\* One queue for the four callbacks: a callback waits for every running
\* sweep to end.
CanStartAlone(job) ==
    /\ job \in due
    /\ \A k \in Jobs : pc[k] = "idle"
    /\ due' = due \ {job}

\* A due job fires: the cron callback calls the sweep function.
CanStart(job) ==
    /\ job \in due
    /\ pc[job] = "idle"
    /\ due' = due \ {job}

\* The first query with a retry in its catch: the failure is logged and the
\* rows are loaded all the same.
LoadRetried(job, result, done, f) ==
    /\ rows' = [rows EXCEPT ![job] = result]
    /\ pc' = [pc EXCEPT ![job] = IF result = <<>> THEN done ELSE "loop"]
    /\ IF f = "none" THEN UNCHANGED errors ELSE Logged(job, 0)

\* The first query of a sweep, inside the outer try only.
Load(job, result, done, f) ==
    IF f = "none"
    THEN /\ rows' = [rows EXCEPT ![job] = result]
         /\ pc' = [pc EXCEPT ![job] = IF result = <<>> THEN done ELSE "loop"]
         /\ UNCHANGED errors
    ELSE /\ Logged(job, 0)
         /\ UNCHANGED <<pc, rows>>

\* The loop moves on to the next row; the sweep ends after the last one.
NextRowTo(job, more, done) ==
    /\ rows' = [rows EXCEPT ![job] = Tail(rows[job])]
    /\ pc' = [pc EXCEPT ![job] = IF Tail(rows[job]) = <<>> THEN done ELSE more]

NextRow(job) == NextRowTo(job, "loop", "idle")

\* The loop with the catch outside it: the first failure ends the sweep.
TargetAborts(job, target) ==
    /\ Logged(job, target)
    /\ pc' = [pc EXCEPT ![job] = "idle"]
    /\ rows' = [rows EXCEPT ![job] = <<>>]

\* catch (error) { console.error(...) } inside the for loop: the failure of
\* one target is logged and the loop goes on.
TargetFailed(job, target) == Logged(job, target) /\ NextRow(job)

\* catch (error) { console.error(...) } around the whole sweep body: the
\* sweep invocation ends, whatever rows are left.
SweepFailed(job) ==
    /\ Logged(job, 0)
    /\ pc' = [pc EXCEPT ![job] = "idle"]
    /\ rows' = [rows EXCEPT ![job] = <<>>]

\* The transport outcomes a dispatch to this user can meet.
SmsOutcomes(user) == IF user.phone THEN BOOLEAN ELSE {TRUE}
EmailOutcomes(user) == IF user.email THEN BOOLEAN ELSE {TRUE}

\* The timers of the next tick fire while a sweep is still awaiting: every
\* callback that could run has run, and the running sweeps stay where they
\* are. A job still running keeps its firing until its sweep has ended.
TickDuring ==
    /\ now < MaxTime
    /\ \E j \in Jobs : pc[j] # "idle"
    /\ \A j \in due : pc[j] # "idle"
    /\ now' = now + 1
    /\ due' = due \cup DueAt(now + 1)
    /\ UNCHANGED <<faults, env, domains, certs, log, pc, rows, days, contacts, errors>>

\* ------------------------------------------------- performDailyMonitoring
\* The UPDATE without its WHERE clause.
MarkExpiredAll(id) ==
    [d \in DOMAIN domains |-> [domains[d] EXCEPT !.status = "expired"]]

\* UPDATE domains SET status = 'expired' WHERE id = $1
MarkExpired(id) ==
    IF id \in DOMAIN domains THEN [domains EXCEPT ![id].status = "expired"]
    ELSE domains

\* The cron callback fires and the sweep loads the active domains.
DailyStart ==
    /\ CanStart("daily")
    /\ \E f \in FaultPoints({"query"}) :
         Fault(f) /\ Load("daily", ActiveDomains, "idle", f)
    /\ UNCHANGED <<now, env, domains, certs, log, days, contacts>>

\* One iteration of the loop: daysUntilExpiry, the rule query, the dispatch,
\* the log insert, the status update.
DailyTarget ==
    /\ pc["daily"] = "loop"
    /\ LET domain == Head(rows["daily"])
           daysUntilExpiry == DaysUntil(domain.expiry_date, now)
           alertResult == MatchingRules(domain.id, "domain_expiry", daysUntilExpiry)
           entry == LogEntry(domain.user_id, domain.id, "domain_expiry")
       IN  IF daysUntilExpiry <= AlertWindowDays /\ daysUntilExpiry > 0
           THEN \E f \in FaultPoints({"query", "insert"}) :
                  /\ Fault(f)
                  /\ UNCHANGED domains
                  /\ IF f = "query"
                     THEN TargetFailed("daily", domain.id) /\ UNCHANGED <<log, contacts>>
                     ELSE IF alertResult = {}
                     THEN /\ f = "none"
                          /\ NextRow("daily")
                          /\ UNCHANGED <<errors, log, contacts>>
                     ELSE \E emailOk \in EmailOutcomes(domain), smsOk \in SmsOutcomes(domain) :
                            /\ Dispatched(domain.id, "domain_expiry",
                                 sendDomainExpiryAlert(domain, domain, daysUntilExpiry,
                                                       emailOk, smsOk),
                                 Flags(alertResult))
                            /\ IF f = "none" /\ InsertOk(entry)
                               THEN /\ log' = Insert(entry)
                                    /\ NextRow("daily")
                                    /\ UNCHANGED errors
                               ELSE TargetFailed("daily", domain.id) /\ UNCHANGED log
           ELSE IF daysUntilExpiry <= 0
                THEN \E f \in FaultPoints({"update"}) :
                       /\ Fault(f)
                       /\ UNCHANGED <<log, contacts>>
                       /\ IF f = "none"
                          THEN /\ domains' = MarkExpired(domain.id)
                               /\ NextRow("daily")
                               /\ UNCHANGED errors
                          ELSE TargetFailed("daily", domain.id) /\ UNCHANGED domains
                ELSE /\ NextRow("daily")
                     /\ UNCHANGED <<faults, errors, domains, log, contacts>>
    /\ UNCHANGED <<now, due, env, certs, days>>

\* ------------------------------------------------ performUptimeMonitoring
\* A stored domain_name (any trimmed text of 3 characters or more), by what
\* the probes look at: whether it starts with 'http', and whether the URL
\* built from it ('https://' put in front unless it starts with 'http')
\* parses.
Host(name, http, parses) == [name |-> name, http |-> http, parses |-> parses]

PlainHost == Host("example.com", FALSE, TRUE)

HostNames ==
    {PlainHost,
     Host("https://example.com", TRUE, TRUE),
     Host("http://example.com", TRUE, TRUE),
     Host("httpbin.org", TRUE, FALSE),
     Host("exa mple.com", FALSE, FALSE)}

StatusCodes == {200, 399, 400, 500}

\* What the network does to one probe: the request gets a response (with a
\* status code, and a usable peer certificate or not), an 'error' event or
\* a 'timeout' event; tls says how the fallback tls.connect would end.
NetOutcomes ==
    [request : {"response", "error", "timeout"}, status : StatusCodes,
     cert : BOOLEAN, tls : {"cert", "nocert", "error", "timeout"}]

Resolved(value) == [settled |-> "resolved", value |-> value, error |-> "none"]

Rejected(error) == [settled |-> "rejected", value |-> "none", error |-> error]

\* checkDomainUptime(domainName): protocol.get(url, ...) inside the promise
\* executor throws for a url that does not parse, which rejects the
\* promise; otherwise the first event settles it.
checkDomainUptime(domainName, net) ==
    IF ~domainName.parses THEN Rejected("ERR_INVALID_URL")
    ELSE IF net.request = "response"
         THEN Resolved(net.status >= 200 /\ net.status < 400)
         ELSE Resolved(FALSE)

\* checkWithTLS(hostname): the certificate, or a rejection with a new Error
\* ('No valid certificate found', 'Connection timeout') or with the socket's
\* own error object.
checkWithTLS(net) ==
    CASE net.tls = "cert" -> Resolved("certificate")
      [] net.tls = "nocert" -> Rejected("Error: No valid certificate found")
      [] net.tls = "timeout" -> Rejected("Error: Connection timeout")
      [] OTHER -> Rejected("transport error")

\* checkSSLCertificate(domain): null when new URL throws (caught and logged
\* by the function itself); the certificate of the response; a rejection
\* with a new Error when the response carries no usable certificate or the
\* request times out; on a request error whatever checkWithTLS settles to.
checkSSLCertificate(domain, net) ==
    IF ~domain.parses THEN Resolved("null")
    ELSE CASE net.request = "response" ->
                IF net.cert THEN Resolved("certificate")
                ELSE Rejected("Error: No valid certificate found")
           [] net.request = "timeout" -> Rejected("Error: Request timeout")
           [] OTHER -> checkWithTLS(net)

\* The domains of the model carry plain host names; a host in down refuses
\* the connection, the others answer 200.
HostOf(id) == PlainHost

NetOf(id) ==
    [request |-> IF id \in down THEN "error" ELSE "response", status |-> 200,
     cert |-> TRUE, tls |-> IF id \in down THEN "error" ELSE "cert"]

UptimeStart ==
    /\ CanStart("uptime")
    /\ \E f \in FaultPoints({"query"}) :
         Fault(f) /\ Load("uptime", ActiveDomains, "idle", f)
    /\ UNCHANGED <<now, env, domains, certs, log, days, contacts>>

\* One iteration of the loop: the probe, the rule query, the dispatch, the
\* log insert.
UptimeTarget ==
    /\ pc["uptime"] = "loop"
    /\ LET domain == Head(rows["uptime"])
           probed == checkDomainUptime(HostOf(domain.id), NetOf(domain.id))
           isUp == probed.value
           alertResult == {a \in alerts : a.domain_id = domain.id
                                            /\ a.type = "domain_downtime"}
           entry == LogEntry(domain.user_id, domain.id, "domain_downtime")
       IN  IF probed.settled = "rejected"
           THEN /\ TargetFailed("uptime", domain.id)
                /\ UNCHANGED <<faults, log, contacts>>
           ELSE IF ~isUp
           THEN \E f \in FaultPoints({"query", "insert"}) :
                  /\ Fault(f)
                  /\ IF f = "query"
                     THEN TargetFailed("uptime", domain.id) /\ UNCHANGED <<log, contacts>>
                     ELSE IF alertResult = {}
                     THEN /\ f = "none"
                          /\ NextRow("uptime")
                          /\ UNCHANGED <<errors, log, contacts>>
                     ELSE \E emailOk \in EmailOutcomes(domain), smsOk \in SmsOutcomes(domain) :
                            /\ Dispatched(domain.id, "domain_downtime",
                                 sendDomainDowntimeAlert(domain, domain, emailOk, smsOk),
                                 Flags(alertResult))
                            /\ IF f = "none" /\ InsertOk(entry)
                               THEN /\ log' = Insert(entry)
                                    /\ NextRow("uptime")
                                    /\ UNCHANGED errors
                               ELSE TargetFailed("uptime", domain.id) /\ UNCHANGED log
           ELSE /\ NextRow("uptime")
                /\ UNCHANGED <<faults, errors, log, contacts>>
    /\ UNCHANGED <<now, due, env, domains, certs, days>>

\* --------------------------------------------------- performSSLMonitoring
\* What checkSSLCertificate can hand to the sweep: the certificate's data,
\* a rejection (handshake error, timeout, no certificate), or null (the
\* host name is no valid URL).
ProbeOutcomes == {"cert"} \cup (IF faults < MaxFaults THEN {"reject", "null"} ELSE {})

\* FROM domains d JOIN ssl_certificates s ON d.id = s.domain_id
\* WHERE d.status = 'active'
DomainsWithCerts ==
    ConcatUpTo([d \in DomainIds |->
                  IF d \in ActiveIds /\ \E s \in certs : s.domain_id = d
                  THEN <<WithCert(DomainRow(d), CHOOSE s \in certs : s.domain_id = d)>>
                  ELSE <<>>], NumDomains)

SslStart ==
    /\ CanStart("ssl")
    /\ \E f \in FaultPoints({"query"}) :
         Fault(f) /\ Load("ssl", DomainsWithCerts, "idle", f)
    /\ UNCHANGED <<now, env, domains, certs, log, days, contacts>>

\* UPDATE ssl_certificates SET valid_until = $3, status = $4 WHERE domain_id = $5
UpdateCert(domain_id, validUntil, status) ==
    {IF s.domain_id = domain_id
     THEN [s EXCEPT !.valid_until = validUntil, !.status = status]
     ELSE s : s \in certs}

\* One iteration of the loop: the probe, the update of the stored
\* certificate, the rule query, the dispatch, the log insert.  The call is
\* sendSSLExpiryAlert(record, record, daysUntilSSLExpiry): three arguments
\* for the parameters (domain, sslCert, user, daysUntilExpiry), so the
\* number stands where the user is expected.
SslTarget ==
    /\ pc["ssl"] = "loop"
    /\ \E outcome \in ProbeOutcomes :
         LET record == Head(rows["ssl"])
             validUntil == DateOf(hostValidTo)
             daysUntilSSLExpiry == DaysUntil(validUntil, now)
             alertResult == MatchingRules(record.domain_id, "ssl_expiry", daysUntilSSLExpiry)
             user == AsObject(daysUntilSSLExpiry)
             entry == LogEntry(record.user_id, record.domain_id, "ssl_expiry")
         IN  CASE outcome = "null" ->
                    \* logged by checkSSLCertificate's own catch; if (sslInfo) skips
                    /\ Fault(outcome)
                    /\ Logged("ssl", record.domain_id)
                    /\ NextRow("ssl")
                    /\ UNCHANGED <<certs, log, contacts>>
               [] outcome = "reject" ->
                    /\ Fault(outcome)
                    /\ TargetFailed("ssl", record.domain_id)
                    /\ UNCHANGED <<certs, log, contacts>>
               [] OTHER ->
                    \E f \in FaultPoints({"update", "query", "insert"}) :
                      /\ Fault(f)
                      /\ IF f = "update"
                         THEN /\ TargetFailed("ssl", record.domain_id)
                              /\ UNCHANGED <<certs, log, contacts>>
                         ELSE /\ certs' = UpdateCert(record.domain_id, validUntil,
                                                     CertStatus(hostValidTo, now))
                              /\ IF ~(daysUntilSSLExpiry <= AlertWindowDays
                                        /\ daysUntilSSLExpiry > 0)
                                 THEN /\ f = "none"
                                      /\ NextRow("ssl")
                                      /\ UNCHANGED <<errors, log, contacts>>
                                 ELSE IF f = "query"
                                 THEN /\ TargetFailed("ssl", record.domain_id)
                                      /\ UNCHANGED <<log, contacts>>
                                 ELSE IF alertResult = {}
                                 THEN /\ f = "none"
                                      /\ NextRow("ssl")
                                      /\ UNCHANGED <<errors, log, contacts>>
                                 ELSE \E emailOk \in EmailOutcomes(user),
                                         smsOk \in SmsOutcomes(user) :
                                        /\ Dispatched(record.domain_id, "ssl_expiry",
                                             sendSSLExpiryAlert(record, record, user,
                                                                Undefined, emailOk, smsOk),
                                             Flags(alertResult))
                                        /\ IF f = "none" /\ InsertOk(entry)
                                           THEN /\ log' = Insert(entry)
                                                /\ NextRow("ssl")
                                                /\ UNCHANGED errors
                                           ELSE /\ TargetFailed("ssl", record.domain_id)
                                                /\ UNCHANGED log
    /\ UNCHANGED <<now, due, env, domains, days>>

\* ----------------------------------------------------- checkAndSendAlerts
\* The query without d.expiry_date > CURRENT_DATE.
ExpiringDomainsAnyAge ==
    ConcatUpTo([d \in DomainIds |->
                  IF /\ d \in ActiveIds
                     /\ domains[d].expiry_date <= Today + AlertWindowDays
                  THEN LET rules == RulesInOrder({a \in alerts :
                                       a.domain_id = d /\ a.type = "domain_expiry"})
                       IN  [i \in 1..Len(rules) |-> WithRule(DomainRow(d), rules[i])]
                  ELSE <<>>], NumDomains)

\* FROM domains d JOIN users u JOIN alerts a WHERE a.type = 'domain_expiry'
\* AND d.expiry_date <= CURRENT_DATE + INTERVAL '30 days'
\* AND d.expiry_date > CURRENT_DATE AND d.status = 'active'
ExpiringDomains ==
    ConcatUpTo([d \in DomainIds |->
                  IF /\ d \in ActiveIds
                     /\ domains[d].expiry_date <= Today + AlertWindowDays
                     /\ domains[d].expiry_date > Today
                  THEN LET rules == RulesInOrder({a \in alerts :
                                       a.domain_id = d /\ a.type = "domain_expiry"})
                       IN  [i \in 1..Len(rules) |-> WithRule(DomainRow(d), rules[i])]
                  ELSE <<>>], NumDomains)

\* The query without its 30-day condition: the threshold alone decides.
ExpiringSSLNoWindow ==
    ConcatUpTo([d \in DomainIds |->
                  IF /\ d \in ActiveIds
                     /\ \E s \in certs : s.domain_id = d /\ s.valid_until > Today
                  THEN LET s == CHOOSE c \in certs : c.domain_id = d
                           rules == RulesInOrder({a \in alerts :
                                       a.domain_id = d /\ a.type = "ssl_expiry"})
                       IN  [i \in 1..Len(rules) |->
                              WithRule(WithCert(DomainRow(d), s), rules[i])]
                  ELSE <<>>], NumDomains)

\* FROM domains d JOIN ssl_certificates s JOIN users u JOIN alerts a
\* WHERE a.type = 'ssl_expiry' AND s.valid_until <= CURRENT_DATE + INTERVAL
\* '30 days' AND s.valid_until > CURRENT_DATE AND d.status = 'active'
ExpiringSSL ==
    ConcatUpTo([d \in DomainIds |->
                  IF /\ d \in ActiveIds
                     /\ \E s \in certs : /\ s.domain_id = d
                                         /\ s.valid_until <= Today + AlertWindowDays
                                         /\ s.valid_until > Today
                  THEN LET s == CHOOSE c \in certs : c.domain_id = d
                           rules == RulesInOrder({a \in alerts :
                                       a.domain_id = d /\ a.type = "ssl_expiry"})
                       IN  [i \in 1..Len(rules) |->
                              WithRule(WithCert(DomainRow(d), s), rules[i])]
                  ELSE <<>>], NumDomains)

AlertStart ==
    /\ CanStart("alert")
    /\ \E f \in FaultPoints({"query"}) :
         Fault(f) /\ Load("alert", ExpiringDomains, "sslload", f)
    /\ UNCHANGED <<now, env, domains, certs, log, days, contacts>>

\* One iteration of the first loop up to the dispatch: daysUntilExpiry, the
\* threshold test, the query for a recent notification.
AlertCheck ==
    /\ pc["alert"] = "loop"
    /\ LET record == Head(rows["alert"])
           daysUntilExpiry == DaysUntil(record.expiry_date, now)
       IN  IF daysUntilExpiry <= record.days_before_expiry
           THEN \E f \in FaultPoints({"query"}) :
                  /\ Fault(f)
                  /\ IF f = "query"
                     THEN SweepFailed("alert") /\ UNCHANGED days
                     ELSE IF RecentNotification(record.id, "domain_expiry") = {}
                     THEN /\ pc' = [pc EXCEPT !["alert"] = "send"]
                          /\ days' = [days EXCEPT !["alert"] = daysUntilExpiry]
                          /\ UNCHANGED <<rows, errors>>
                     ELSE /\ NextRowTo("alert", "loop", "sslload")
                          /\ UNCHANGED <<errors, days>>
           ELSE /\ NextRowTo("alert", "loop", "sslload")
                /\ UNCHANGED <<faults, errors, days>>
    /\ UNCHANGED <<now, due, env, domains, certs, log, contacts>>

\* The dispatch of that iteration and the log insert that follows it.
AlertSend ==
    /\ pc["alert"] = "send"
    /\ LET record == Head(rows["alert"])
           entry == LogEntry(record.user_id, record.id, "domain_expiry")
       IN  \E f \in FaultPoints({"insert"}) :
           \E emailOk \in EmailOutcomes(record), smsOk \in SmsOutcomes(record) :
             /\ Fault(f)
             /\ Dispatched(record.id, "domain_expiry",
                  sendDomainExpiryAlert(record, record, days["alert"], emailOk, smsOk),
                  Flags({record}))
             /\ IF f = "none" /\ InsertOk(entry)
                THEN /\ log' = Insert(entry)
                     /\ NextRowTo("alert", "loop", "sslload")
                     /\ UNCHANGED errors
                ELSE SweepFailed("alert") /\ UNCHANGED log
    /\ days' = [days EXCEPT !["alert"] = 0]
    /\ UNCHANGED <<now, due, env, domains, certs>>

\* The second query of the sweep, after the first loop.
AlertSslLoad ==
    /\ pc["alert"] = "sslload"
    /\ \E f \in FaultPoints({"query"}) :
         /\ Fault(f)
         /\ IF f = "none"
            THEN /\ rows' = [rows EXCEPT !["alert"] = ExpiringSSL]
                 /\ pc' = [pc EXCEPT !["alert"] =
                             IF ExpiringSSL = <<>> THEN "idle" ELSE "sslloop"]
                 /\ UNCHANGED errors
            ELSE SweepFailed("alert")
    /\ UNCHANGED <<now, due, env, domains, certs, log, days, contacts>>

\* One iteration of the second loop up to the dispatch; record.id is the
\* certificate's id (see WithCert).
AlertSslCheck ==
    /\ pc["alert"] = "sslloop"
    /\ LET record == Head(rows["alert"])
           daysUntilSSLExpiry == DaysUntil(record.valid_until, now)
       IN  IF daysUntilSSLExpiry <= record.days_before_expiry
           THEN \E f \in FaultPoints({"query"}) :
                  /\ Fault(f)
                  /\ IF f = "query"
                     THEN SweepFailed("alert") /\ UNCHANGED days
                     ELSE IF RecentNotification(record.id, "ssl_expiry") = {}
                     THEN /\ pc' = [pc EXCEPT !["alert"] = "sslsend"]
                          /\ days' = [days EXCEPT !["alert"] = daysUntilSSLExpiry]
                          /\ UNCHANGED <<rows, errors>>
                     ELSE /\ NextRowTo("alert", "sslloop", "idle")
                          /\ UNCHANGED <<errors, days>>
           ELSE /\ NextRowTo("alert", "sslloop", "idle")
                /\ UNCHANGED <<faults, errors, days>>
    /\ UNCHANGED <<now, due, env, domains, certs, log, contacts>>

\* The dispatch of that iteration, sendSSLExpiryAlert(record, record,
\* daysUntilSSLExpiry), and the log insert that follows it.
AlertSslSend ==
    /\ pc["alert"] = "sslsend"
    /\ LET record == Head(rows["alert"])
           user == AsObject(days["alert"])
           entry == LogEntry(record.user_id, record.id, "ssl_expiry")
       IN  \E f \in FaultPoints({"insert"}) :
           \E emailOk \in EmailOutcomes(user), smsOk \in SmsOutcomes(user) :
             /\ Fault(f)
             /\ Dispatched(record.domain_id, "ssl_expiry",
                  sendSSLExpiryAlert(record, record, user, Undefined, emailOk, smsOk),
                  Flags({record}))
             /\ IF f = "none" /\ InsertOk(entry)
                THEN /\ log' = Insert(entry)
                     /\ NextRowTo("alert", "sslloop", "idle")
                     /\ UNCHANGED errors
                ELSE SweepFailed("alert") /\ UNCHANGED log
    /\ days' = [days EXCEPT !["alert"] = 0]
    /\ UNCHANGED <<now, due, env, domains, certs>>

\* ---------------------------------------------------------- specification
Next ==
    \/ Tick
    \/ DailyStart
    \/ DailyTarget
    \/ UptimeStart
    \/ UptimeTarget
    \/ SslStart
    \/ SslTarget
    \/ AlertStart
    \/ AlertCheck
    \/ AlertSend
    \/ AlertSslLoad
    \/ AlertSslCheck
    \/ AlertSslSend

Spec == Init /\ [][Next]_vars

\* ------------------------------------------- the scheduler left to itself
\* Storage and probes that never fail; the timers keep firing and every
\* callback that was started runs on to its end.
InitLive == Started /\ faults = MaxFaults

SpecLive == InitLive /\ [][Next]_vars /\ WF_vars(Next)

\* ---------------------------------------------------------- slow sweeps
\* The engine with sweeps that last longer than a tick, on one set of tables
\* and with no await failing.
InitOverlap ==
    /\ Started
    /\ faults = MaxFaults
    /\ down = {1}
    /\ hostValidTo = DayTicks + 1
    /\ \A d \in DomainIds : domains[d].expiry_date = IF d = 1 THEN 20 ELSE 45
    /\ \A a \in alerts : a.days_before_expiry = 2 * DefaultThreshold

NextOverlap == Next \/ TickDuring

SpecOverlap == InitOverlap /\ [][NextOverlap]_vars

\* -------------------------------------------------- start and stop
\* cron.schedule(..., { scheduled: false }): the four jobs are created
\* stopped.
Stopped ==
    /\ armed = {}
    /\ due = {}
    /\ Booted

\* Storage and probes that never fail, certificates about to expire, rules
\* with the larger threshold.
InitStopped ==
    /\ Stopped
    /\ faults = MaxFaults
    /\ hostValidTo = DayTicks + 1
    /\ \A a \in alerts : a.days_before_expiry = 2 * DefaultThreshold

\* startMonitoring(): start() on each of the four jobs; they fire from the
\* next tick on.
startMonitoring ==
    /\ armed' = Jobs
    /\ UNCHANGED <<now, due, faults, down, hostValidTo, domains, alerts, certs, log,
                   pc, rows, days, contacts, lastDispatch, errors, api>>

\* Three of the four stop() calls only.
stopMonitoringButOne ==
    /\ armed' = armed \cap {"alert"}
    /\ due' = due \cap {"alert"}
    /\ UNCHANGED <<now, faults, down, hostValidTo, domains, alerts, certs, log,
                   pc, rows, days, contacts, lastDispatch, errors, api>>

\* stopMonitoring(): stop() on each of the four jobs; no timer fires any
\* more, a callback that is running is not touched.
stopMonitoring ==
    /\ armed' = {}
    /\ due' = {}
    /\ UNCHANGED <<now, faults, down, hostValidTo, domains, alerts, certs, log,
                   pc, rows, days, contacts, lastDispatch, errors, api>>

NextSched ==
    \/ Next
    \/ startMonitoring
    \/ stopMonitoring

\* The event loop runs every timer that fired and every callback that was
\* started.
SpecSched == InitStopped /\ [][NextSched]_vars /\ WF_vars(Next)

\* ------------------------------------------------------ the pool's errors
\* pool.on('error'): an idle client of the pool loses its connection; the
\* handler logs and calls process.exit(-1).  The tables stay as they are,
\* everything the process held is gone.
PoolIdleError ==
    /\ \A j \in Jobs : pc[j] # "exited"
    /\ faults < MaxFaults
    /\ Fault("idle client")
    /\ Logged("pool", 0)
    /\ pc' = [j \in Jobs |-> "exited"]
    /\ rows' = [j \in Jobs |-> <<>>]
    /\ days' = [j \in Jobs |-> 0]
    /\ armed' = {}
    /\ due' = {}
    /\ UNCHANGED <<now, down, hostValidTo, domains, alerts, certs, log, contacts,
                   lastDispatch, api>>

NextProcess ==
    \/ Next
    \/ PoolIdleError

SpecProcess == Init /\ [][NextProcess]_vars

\* ------------------------------------------------------------ the HTTP API
\* A request: its route, the authenticated user (req.user.id), the id in its
\* path or body, and the rules of its body: [type, days], where days is the
\* set holding the daysBeforeExpiry given, empty when the field is left out.
Request(route, user, target, body) ==
    [route |-> route, user |-> user, target |-> target, body |-> body]

\* The answer to the n-th request; probed is what the request's probe came to.
Response(n, req, status, probed) ==
    [n |-> n, req |-> req, status |-> status, probed |-> probed]

UserIds == 1..NumUsers

\* daysBeforeExpiry as the clients send it: left out, or an integer.
DaysInputs == {{}, {0}, {1}, {MaxThreshold}, {MaxThreshold + 1}}

\* Bodies of the bulk route: up to two rules.
BulkEntries == [type : {"domain_expiry", "ssl_expiry"}, days : {{}, {1}, {MaxThreshold + 1}}]

BulkBodies == {<<>>} \cup {<<e>> : e \in BulkEntries}
                     \cup {<<e, f>> : e \in BulkEntries, f \in {g \in BulkEntries : g.days = {1}}}

\* Ids of rules as they appear in paths: those stored, and one that is not.
AlertIds == {a.id : a \in alerts} \cup {0}

\* The validator without its range.
optionalIsIntAnyValue(field) == \A v \in field : v \in Int

\* body(...).optional().isInt({ min: 1, max: 90 })
optionalIsInt(field) == \A v \in field : v >= 1 /\ v <= MaxThreshold

\* body(...).isInt({ min: 1, max: 90 })
isInt(field) == field # {} /\ \A v \in field : v >= 1 /\ v <= MaxThreshold

\* const { ..., daysBeforeExpiry = 30 } = req.body
OrDefault(field) == IF field = {} THEN DefaultThreshold ELSE CHOOSE v \in field : TRUE

\* SELECT id FROM domains WHERE id = $1 AND user_id = $2
OwnsDomain(user, d) == d \in DOMAIN domains /\ domains[d].user_id = user

\* SELECT id FROM alerts WHERE id = $1 AND user_id = $2
OwnsAlert(user, id) == \E a \in alerts : a.id = id /\ a.user_id = user

\* INSERT INTO alerts (user_id, domain_id, type, email_enabled, sms_enabled,
\* days_before_expiry) VALUES (...): the id comes from the sequence.
AlertRow(id, user, d, type, daysBeforeExpiry) ==
    [id |-> id, user_id |-> user, domain_id |-> d, type |-> type,
     days_before_expiry |-> daysBeforeExpiry, email_enabled |-> TRUE, sms_enabled |-> FALSE]

\* The request is counted and answered.
Answer(req, status, probed) ==
    /\ reqs' = reqs + 1
    /\ resp' = Response(reqs + 1, req, status, probed)

\* catch (error) { console.error(...); res.status(500) }
Failed(req, probed) ==
    /\ Answer(req, 500, probed)
    /\ Logged("api", req.target)

\* POST /alerts up to its last await: validation, the domain check and the
\* check for an existing rule; a request that passes them is left waiting
\* for its INSERT.
AlertCreate ==
    /\ reqs < MaxRequests
    /\ \E user \in UserIds, d \in DomainIds, type \in AlertTypes, daysBeforeExpiry \in DaysInputs :
         LET req == Request("POST /alerts", user, d, <<[type |-> type, days |-> daysBeforeExpiry]>>)
         IN  IF ~optionalIsInt(daysBeforeExpiry) THEN Answer(req, 400, "none") /\ UNCHANGED pending
             ELSE IF ~OwnsDomain(user, d) THEN Answer(req, 404, "none") /\ UNCHANGED pending
             ELSE IF \E a \in alerts : a.domain_id = d /\ a.type = type /\ a.user_id = user
             THEN Answer(req, 400, "none") /\ UNCHANGED pending
             ELSE /\ reqs' = reqs + 1
                  /\ pending' = pending \cup {[n |-> reqs + 1, req |-> req]}
                  /\ UNCHANGED resp
    /\ UNCHANGED <<now, due, faults, down, hostValidTo, domains, alerts, certs, log,
                   pc, rows, days, contacts, lastDispatch, errors, armed, probe, serial>>

\* POST /alerts from its INSERT on.
AlertCreateInsert ==
    /\ \E p \in pending :
         LET rule == p.req.body[1]
         IN  /\ alerts' = alerts \cup {AlertRow(serial, p.req.user, p.req.target,
                                                rule.type, OrDefault(rule.days))}
             /\ serial' = serial + 1
             /\ pending' = pending \ {p}
             /\ resp' = Response(p.n, p.req, 201, "none")
    /\ UNCHANGED <<now, due, faults, down, hostValidTo, domains, certs, log, pc, rows,
                   days, contacts, lastDispatch, errors, armed, probe, reqs>>

\* PUT /alerts/:id with daysBeforeExpiry as the only field of the body.
AlertUpdate ==
    /\ reqs < MaxRequests
    /\ \E user \in UserIds, id \in AlertIds, daysBeforeExpiry \in DaysInputs :
         LET req == Request("PUT /alerts/:id", user, id, <<[type |-> "none", days |-> daysBeforeExpiry]>>)
         IN  IF ~optionalIsInt(daysBeforeExpiry) THEN Answer(req, 400, "none") /\ UNCHANGED alerts
             ELSE IF ~OwnsAlert(user, id) THEN Answer(req, 404, "none") /\ UNCHANGED alerts
             ELSE IF daysBeforeExpiry = {} THEN Answer(req, 400, "none") /\ UNCHANGED alerts
             ELSE /\ alerts' = {IF a.id = id
                                THEN [a EXCEPT !.days_before_expiry = OrDefault(daysBeforeExpiry)]
                                ELSE a : a \in alerts}
                  /\ Answer(req, 200, "none")
    /\ UNCHANGED <<now, due, faults, down, hostValidTo, domains, certs, log, pc, rows,
                   days, contacts, lastDispatch, errors, armed, probe, pending, serial>>

\* DELETE /alerts/:id
AlertDelete ==
    /\ reqs < MaxRequests
    /\ \E user \in UserIds, id \in AlertIds :
         LET req == Request("DELETE /alerts/:id", user, id, <<>>)
         IN  IF ~OwnsAlert(user, id) THEN Answer(req, 404, "none") /\ UNCHANGED alerts
             ELSE /\ alerts' = {a \in alerts : a.id # id}
                  /\ Answer(req, 200, "none")
    /\ UNCHANGED <<now, due, faults, down, hostValidTo, domains, certs, log, pc, rows,
                   days, contacts, lastDispatch, errors, armed, probe, pending, serial>>

\* The rows the loop of the bulk route inserts, one per element of the body.
BulkRows(user, d, body) ==
    {AlertRow(serial + i - 1, user, d, body[i].type, OrDefault(body[i].days)) :
       i \in 1..Len(body)}

\* PUT /alerts/domain/:domainId/bulk: validation of every element, the
\* domain check, DELETE of the domain's rules, one INSERT per element. Each
\* statement is its own pool.query; one that fails throws to the catch.
AlertBulk ==
    /\ reqs < MaxRequests
    /\ \E user \in UserIds, d \in DomainIds, body \in BulkBodies :
         LET req == Request("PUT /alerts/domain/:domainId/bulk", user, d, body)
             kept == {a \in alerts : ~(a.domain_id = d /\ a.user_id = user)}
         IN  IF \E i \in 1..Len(body) : ~isInt(body[i].days)
             THEN /\ Answer(req, 400, "none")
                  /\ UNCHANGED <<alerts, serial, faults, errors>>
             ELSE \E f \in FaultPoints({"query", "delete", "insert"}) :
                    /\ Fault(f)
                    /\ IF f = "query"
                       THEN Failed(req, "none") /\ UNCHANGED <<alerts, serial>>
                       ELSE IF ~OwnsDomain(user, d)
                       THEN /\ f = "none"
                            /\ Answer(req, 404, "none")
                            /\ UNCHANGED <<alerts, serial, errors>>
                       ELSE IF f = "delete"
                       THEN Failed(req, "none") /\ UNCHANGED <<alerts, serial>>
                       ELSE IF f = "insert"
                       THEN \E failing \in 1..Len(body) :
                              /\ alerts' = kept \cup
                                   BulkRows(user, d, SubSeq(body, 1, failing - 1))
                              /\ serial' = serial + failing - 1
                              /\ Failed(req, "none")
                       ELSE /\ alerts' = kept \cup BulkRows(user, d, body)
                            /\ serial' = serial + Len(body)
                            /\ Answer(req, 200, "none")
                            /\ UNCHANGED errors
    /\ UNCHANGED <<now, due, down, hostValidTo, domains, certs, log, pc, rows,
                   days, contacts, lastDispatch, armed, probe, pending>>

\* INSERT INTO notification_logs (...) VALUES ($1, $2, 'test', 'test', 'sent',
\* CURRENT_TIMESTAMP)
TestEntry(user_id, domain_id) ==
    [user_id |-> user_id, domain_id |-> domain_id, type |-> "test",
     method |-> "test", status |-> "sent", sent_at |-> now]

\* POST /alerts/test/:id: the rule joined with its domain and user, a test
\* message on every channel the rule enables, and a log entry.
AlertTest ==
    /\ reqs < MaxRequests
    /\ \E user \in UserIds, id \in AlertIds :
         LET req == Request("POST /alerts/test/:id", user, id, <<>>)
             found == {a \in alerts : a.id = id /\ a.user_id = user
                                      /\ a.domain_id \in DOMAIN domains}
         IN  IF found = {} THEN Answer(req, 404, "none") /\ UNCHANGED <<log, contacts>>
             ELSE LET alert == CHOOSE a \in found : TRUE
                      channels == (IF alert.email_enabled THEN {"email"} ELSE {})
                                    \cup (IF alert.sms_enabled /\ UserOf(user).phone
                                          THEN {"sms"} ELSE {})
                  IN  /\ contacts' = contacts \cup
                           {[target |-> alert.domain_id, type |-> "test", channel |-> m,
                             at |-> now, enabled |-> TRUE] : m \in channels}
                      /\ log' = Insert(TestEntry(user, alert.domain_id))
                      /\ Answer(req, 200, "none")
    /\ UNCHANGED <<now, due, faults, down, hostValidTo, domains, alerts, certs, pc,
                   rows, days, lastDispatch, errors, armed, probe, pending, serial>>

\* The columns of each table that carry a unique index or constraint (the
\* primary keys apart).
UniqueColumns ==
    [users |-> {"email"}, domains |-> {}, ssl_certificates |-> {}, alerts |-> {},
     notification_logs |-> {}]

\* INSERT INTO ssl_certificates (...) VALUES (...) ON CONFLICT (domain_id)
\* DO UPDATE SET ...: the statement needs a unique index on domain_id to
\* infer the conflict from, and is an error without one.
Upsert(table, domain_id, validUntil, status) ==
    IF "domain_id" \notin UniqueColumns.ssl_certificates
    THEN [ok |-> FALSE, rows |-> table]
    ELSE IF \E s \in table : s.domain_id = domain_id
    THEN [ok |-> TRUE,
          rows |-> {IF s.domain_id = domain_id
                    THEN [s EXCEPT !.valid_until = validUntil, !.status = status]
                    ELSE s : s \in table}]
    ELSE [ok |-> TRUE,
          rows |-> table \cup {[id |-> Cardinality(table) + NumDomains + 1,
                                domain_id |-> domain_id, valid_until |-> validUntil,
                                status |-> status]}]

\* What the network does to a probe started by a request.
ApiNets ==
    {[request |-> "response", status |-> 200, cert |-> TRUE, tls |-> "cert"],
     [request |-> "response", status |-> 200, cert |-> FALSE, tls |-> "nocert"],
     [request |-> "error", status |-> 200, cert |-> FALSE, tls |-> "error"]}

\* What a request's probe came to: "certificate", "null" or "rejected".
Probed(result) == IF result.settled = "rejected" THEN "rejected" ELSE result.value

\* POST /ssl/check/:domainId: the domain check, the probe, the upsert.
SslCheck ==
    /\ reqs < MaxRequests
    /\ \E user \in UserIds, d \in DomainIds, net \in ApiNets :
         LET req == Request("POST /ssl/check/:domainId", user, d, <<>>)
             sslInfo == Probed(checkSSLCertificate(HostOf(d), net))
             upsertResult == Upsert(certs, d, DateOf(hostValidTo),
                                    CertStatus(hostValidTo, now))
         IN  IF ~OwnsDomain(user, d)
             THEN Answer(req, 404, "none") /\ UNCHANGED <<certs, errors>>
             ELSE IF sslInfo = "null"
             THEN Answer(req, 400, sslInfo) /\ UNCHANGED <<certs, errors>>
             ELSE IF sslInfo = "rejected" \/ ~upsertResult.ok
             THEN Failed(req, sslInfo) /\ UNCHANGED certs
             ELSE /\ certs' = upsertResult.rows
                  /\ Answer(req, 200, sslInfo)
                  /\ UNCHANGED errors
    /\ UNCHANGED <<now, due, faults, down, hostValidTo, domains, alerts, log, pc, rows,
                   days, contacts, lastDispatch, armed, probe, pending, serial>>

\* The loop of the bulk check over the ids left: a probe that fails, or an
\* upsert that fails, is noted in the response and the loop goes on.
RECURSIVE BulkUpsert(_, _, _)
BulkUpsert(ids, table, net) ==
    IF ids = {} THEN table
    ELSE LET d == CHOOSE i \in ids : \A k \in ids : i <= k
             sslInfo == Probed(checkSSLCertificate(HostOf(d), net))
             upsertResult == Upsert(table, d, DateOf(hostValidTo),
                                    CertStatus(hostValidTo, now))
         IN  BulkUpsert(ids \ {d},
                        IF sslInfo = "certificate" /\ upsertResult.ok
                        THEN upsertResult.rows ELSE table,
                        net)

\* POST /ssl/bulk-check: every domain of the user, whatever its status.
SslBulkCheck ==
    /\ reqs < MaxRequests
    /\ \E user \in UserIds, net \in ApiNets :
         LET req == Request("POST /ssl/bulk-check", user, 0, <<>>)
             mine == {d \in DOMAIN domains : domains[d].user_id = user}
         IN  /\ certs' = BulkUpsert(mine, certs, net)
             /\ Answer(req, 200, Probed(checkSSLCertificate(PlainHost, net)))
    /\ UNCHANGED <<now, due, faults, down, hostValidTo, domains, alerts, log, pc, rows,
                   days, contacts, lastDispatch, errors, armed, probe, pending, serial>>

\* PUT /ssl/:domainId with validUntil as the only field of the body, given
\* as the set holding it:
\* UPDATE ssl_certificates SET valid_until = $1 WHERE domain_id = $2
SslUpdate ==
    /\ reqs < MaxRequests
    /\ \E user \in UserIds, d \in DomainIds, validUntil \in {{}, {45}} :
         LET req == Request("PUT /ssl/:domainId", user, d, <<>>)
         IN  IF ~OwnsDomain(user, d) THEN Answer(req, 404, "none") /\ UNCHANGED certs
             ELSE IF validUntil = {} THEN Answer(req, 400, "none") /\ UNCHANGED certs
             ELSE IF ~\E s \in certs : s.domain_id = d
             THEN Answer(req, 404, "none") /\ UNCHANGED certs
             ELSE /\ certs' = {IF s.domain_id = d
                               THEN [s EXCEPT !.valid_until = CHOOSE v \in validUntil : TRUE]
                               ELSE s : s \in certs}
                  /\ Answer(req, 200, "none")
    /\ UNCHANGED <<now, due, faults, down, hostValidTo, domains, alerts, log, pc, rows,
                   days, contacts, lastDispatch, errors, armed, probe, pending, serial>>

\* DELETE /ssl/:domainId
SslDelete ==
    /\ reqs < MaxRequests
    /\ \E user \in UserIds, d \in DomainIds :
         LET req == Request("DELETE /ssl/:domainId", user, d, <<>>)
         IN  IF ~OwnsDomain(user, d) THEN Answer(req, 404, "none") /\ UNCHANGED certs
             ELSE IF ~\E s \in certs : s.domain_id = d
             THEN Answer(req, 404, "none") /\ UNCHANGED certs
             ELSE /\ certs' = {s \in certs : s.domain_id # d}
                  /\ Answer(req, 200, "none")
    /\ UNCHANGED <<now, due, faults, down, hostValidTo, domains, alerts, log, pc, rows,
                   days, contacts, lastDispatch, errors, armed, probe, pending, serial>>

ApiNext ==
    \/ AlertCreate
    \/ AlertCreateInsert
    \/ AlertUpdate
    \/ AlertDelete
    \/ AlertBulk
    \/ AlertTest
    \/ SslCheck
    \/ SslBulkCheck
    \/ SslUpdate
    \/ SslDelete

\* The server answering requests while the scheduler is stopped, on one set
\* of tables; the clock moves on.
InitApi ==
    /\ Stopped
    /\ faults = MaxFaults
    /\ down = {1}
    /\ hostValidTo = DayTicks + 1
    /\ \A d \in DomainIds : domains[d].expiry_date = 45
    /\ \A a \in alerts : a.days_before_expiry = 2 * DefaultThreshold

NextApi == Tick \/ ApiNext

\* The same service when one statement of a request may fail (a lost
\* connection, a statement timeout).
InitApiFaulty ==
    /\ Stopped
    /\ faults = 0
    /\ down = {1}
    /\ hostValidTo = DayTicks + 1
    /\ \A d \in DomainIds : domains[d].expiry_date = 45
    /\ \A a \in alerts : a.days_before_expiry = 2 * DefaultThreshold

SpecApiFaulty == InitApiFaulty /\ [][NextApi]_vars

SpecApi == InitApi /\ [][NextApi]_vars

\* The server with the scheduler started: the sweeps and the last request of
\* the run, on one set of tables and with no await failing.
InitService ==
    /\ armed = Jobs
    /\ due = DueAt(0)
    /\ probe = NoProbe
    /\ pending = {}
    /\ resp = NoResponse
    /\ reqs = MaxRequests - 1
    /\ serial = 3 * NumDomains + 1
    /\ now = 0
    /\ InitTables
    /\ down = {1}
    /\ hostValidTo = DayTicks + 1
    /\ \A d \in DomainIds : domains[d].expiry_date = IF d = 1 THEN 20 ELSE 45
    /\ \A a \in alerts : a.days_before_expiry = 2 * DefaultThreshold
    /\ faults = MaxFaults
    /\ pc = [j \in Jobs |-> "idle"]
    /\ rows = [j \in Jobs |-> <<>>]
    /\ days = [j \in Jobs |-> 0]
    /\ contacts = {}
    /\ lastDispatch = NoDispatch
    /\ errors = {}

NextService == Next \/ ApiNext

SpecService == InitService /\ [][NextService]_vars

\* ------------------------------------------------------ the domain routes
\* body('status').optional().isIn(['active', 'inactive', 'suspended'])
StatusValues == {"active", "inactive", "suspended"}

\* Bodies of PUT /domains/:id as clients send them: each key left out or
\* present. user_id is a column of the table and not a validated field.
DomainBodies ==
    [status : {{}, {"inactive"}, {"expired"}},
     expiryDate : {{}, {20}},
     user_id : {{}} \cup {{u} : u \in UserIds}]

\* Object.keys(req.body).forEach(key => ...): every key of the body becomes
\* "<column> = $n" of the UPDATE, validated or not.
UpdateFields(body) ==
    {k \in {"status", "expiryDate", "user_id"} : body[k] # {}}

\* UPDATE domains SET <fields> WHERE id = $n
UpdateDomain(d, body) ==
    LET Value(k, old) == IF body[k] = {} THEN old ELSE CHOOSE v \in body[k] : TRUE
    IN  [domains EXCEPT ![d] = [user_id |-> Value("user_id", @.user_id),
                                expiry_date |-> Value("expiryDate", @.expiry_date),
                                status |-> Value("status", @.status)]]

\* PUT /domains/:id
DomainUpdate ==
    /\ reqs < MaxRequests
    /\ \E user \in UserIds, d \in DomainIds, body \in DomainBodies :
         LET req == Request("PUT /domains/:id", user, d, <<body>>)
         IN  IF body.status # {} /\ ~(body.status \subseteq StatusValues)
             THEN Answer(req, 400, "none") /\ UNCHANGED domains
             ELSE IF ~OwnsDomain(user, d)
             THEN Answer(req, 404, "none") /\ UNCHANGED domains
             ELSE IF UpdateFields(body) = {}
             THEN Answer(req, 400, "none") /\ UNCHANGED domains
             ELSE /\ domains' = UpdateDomain(d, body)
                  /\ Answer(req, 200, "none")
    /\ UNCHANGED <<now, due, faults, down, hostValidTo, alerts, certs, log, pc, rows,
                   days, contacts, lastDispatch, errors, armed, probe, pending, serial>>

\* notification_logs.domain_id REFERENCES domains(id), with no ON DELETE
\* action: a referenced domain cannot be deleted.
DeleteOk(d) == \A e \in BagToSet(log) : e.domain_id # d

\* DELETE /domains/:id: the domain check, then DELETE FROM domains WHERE
\* id = $1 with the cascade to ssl_certificates and alerts.
DomainDelete ==
    /\ reqs < MaxRequests
    /\ \E user \in UserIds, d \in DomainIds :
         LET req == Request("DELETE /domains/:id", user, d, <<>>)
         IN  IF ~OwnsDomain(user, d)
             THEN Answer(req, 404, "none") /\ UNCHANGED <<domains, certs, alerts, errors>>
             ELSE IF ~DeleteOk(d)
             THEN Failed(req, "none") /\ UNCHANGED <<domains, certs, alerts>>
             ELSE /\ domains' = [x \in DOMAIN domains \ {d} |-> domains[x]]
                  /\ certs' = {s \in certs : s.domain_id # d}
                  /\ alerts' = {a \in alerts : a.domain_id # d}
                  /\ Answer(req, 200, "none")
                  /\ UNCHANGED errors
    /\ UNCHANGED <<now, due, faults, down, hostValidTo, log, pc, rows,
                   days, contacts, lastDispatch, armed, probe, pending, serial>>

DomainNext == DomainUpdate \/ DomainDelete

NextDomains == NextApi \/ DomainNext

SpecDomains == InitApi /\ [][NextDomains]_vars

\* ------------------------------------------ the dispatch functions alone
DispatchFns == {"sendDomainExpiryAlert", "sendSSLExpiryAlert", "sendDomainDowntimeAlert"}

Users == [email : BOOLEAN, phone : BOOLEAN]

\* A call of one dispatch function with a user and the behaviour of the two
\* transports, before it returns.
InitDispatch ==
    /\ armed = {}
    /\ NoRequests
    /\ now = 0
    /\ due = {}
    /\ faults = 0
    /\ InitTables
    /\ down = DomainIds
    /\ hostValidTo = 45 * DayTicks
    /\ \A d \in DomainIds : domains[d].expiry_date = 45
    /\ \A a \in alerts : a.days_before_expiry = 2 * DefaultThreshold
    /\ pc = [j \in Jobs |-> "idle"]
    /\ rows = [j \in Jobs |-> <<>>]
    /\ days = [j \in Jobs |-> 0]
    /\ contacts = {}
    /\ errors = {}
    /\ \E fn \in DispatchFns, d \in DomainIds, user \in Users,
          emailOk \in BOOLEAN, smsOk \in BOOLEAN :
         lastDispatch = [fn |-> fn, domain |-> d, user |-> user, emailOk |-> emailOk,
                         smsOk |-> smsOk, returned |-> FALSE, results |-> <<>>]

\* A call of one probe with a stored name and the behaviour of the network,
\* before it settles.
ProbeFns == {"checkDomainUptime", "checkSSLCertificate"}

Unsettled == [settled |-> "pending", value |-> "none", error |-> "none"]

InitProbe ==
    /\ armed = {}
    /\ pending = {}
    /\ resp = NoResponse
    /\ reqs = 0
    /\ serial = 3 * NumDomains + 1
    /\ now = 0
    /\ due = {}
    /\ faults = 0
    /\ InitTables
    /\ down = DomainIds
    /\ hostValidTo = 45 * DayTicks
    /\ \A d \in DomainIds : domains[d].expiry_date = 45
    /\ \A a \in alerts : a.days_before_expiry = 2 * DefaultThreshold
    /\ pc = [j \in Jobs |-> "idle"]
    /\ rows = [j \in Jobs |-> <<>>]
    /\ days = [j \in Jobs |-> 0]
    /\ contacts = {}
    /\ errors = {}
    /\ lastDispatch = NoDispatch
    /\ \E fn \in ProbeFns, host \in HostNames, net \in NetOutcomes :
         probe = [fn |-> fn, host |-> host, net |-> net, result |-> Unsettled]

\* The promise of the call settles.
ProbeUptime ==
    /\ probe.fn = "checkDomainUptime"
    /\ probe.result.settled = "pending"
    /\ probe' = [probe EXCEPT !.result = checkDomainUptime(probe.host, probe.net)]
    /\ UNCHANGED <<now, due, faults, down, hostValidTo, domains, alerts, certs,
                   log, pc, rows, days, contacts, errors, armed, lastDispatch,
                   pending, resp, reqs, serial>>

ProbeCertificate ==
    /\ probe.fn = "checkSSLCertificate"
    /\ probe.result.settled = "pending"
    /\ probe' = [probe EXCEPT !.result = checkSSLCertificate(probe.host, probe.net)]
    /\ UNCHANGED <<now, due, faults, down, hostValidTo, domains, alerts, certs,
                   log, pc, rows, days, contacts, errors, armed, lastDispatch,
                   pending, resp, reqs, serial>>

NextProbe == ProbeUptime \/ ProbeCertificate

\* A certificate in the hands of one of the two probes: valid_to and the
\* clock range around the two boundaries of the classification.
ValidToInputs == 0..(30 * DayTicks + MaxTime + 1)

InitClassify ==
    /\ armed = {}
    /\ pending = {}
    /\ resp = NoResponse
    /\ reqs = 0
    /\ serial = 3 * NumDomains + 1
    /\ now \in 0..MaxTime
    /\ due = {}
    /\ faults = 0
    /\ down = DomainIds
    /\ hostValidTo \in ValidToInputs
    /\ domains = [d \in DomainIds |->
                    [user_id |-> OwnerOf(d), expiry_date |-> 45, status |-> "active"]]
    /\ alerts = UNION {{RuleOf(d, t, 2 * DefaultThreshold) : t \in RuleTypesOf(d)} :
                        d \in DomainIds}
    /\ certs = {}
    /\ log = EmptyBag
    /\ pc = [j \in Jobs |-> "idle"]
    /\ rows = [j \in Jobs |-> <<>>]
    /\ days = [j \in Jobs |-> 0]
    /\ contacts = {}
    /\ errors = {}
    /\ lastDispatch = NoDispatch
    /\ \E fn \in {"checkSSLCertificate", "checkWithTLS"} :
         probe = [fn |-> fn, host |-> PlainHost,
                  net |-> [request |-> IF fn = "checkWithTLS" THEN "error" ELSE "response",
                           status |-> 200, cert |-> TRUE, tls |-> "cert"],
                  result |-> Unsettled]

\* The response of the https request carries the certificate: its status.
ClassifyResponse ==
    /\ probe.fn = "checkSSLCertificate"
    /\ probe.result.settled = "pending"
    /\ probe' = [probe EXCEPT !.result = Resolved(CertStatus(hostValidTo, now))]
    /\ UNCHANGED <<now, due, faults, down, hostValidTo, domains, alerts, certs,
                   log, pc, rows, days, contacts, errors, armed, lastDispatch,
                   pending, resp, reqs, serial>>

\* The TLS socket of the fallback carries the certificate: its status.
ClassifyTLS ==
    /\ probe.fn = "checkWithTLS"
    /\ probe.result.settled = "pending"
    /\ probe' = [probe EXCEPT !.result = Resolved(CertStatusTLS(hostValidTo, now))]
    /\ UNCHANGED <<now, due, faults, down, hostValidTo, domains, alerts, certs,
                   log, pc, rows, days, contacts, errors, armed, lastDispatch,
                   pending, resp, reqs, serial>>

NextClassify == ClassifyResponse \/ ClassifyTLS

SpecClassify == InitClassify /\ [][NextClassify]_vars

\* The days-remaining computation of a sweep on its own: the expiry date of
\* domain 1 and the clock, over four days.
DateInputs == 0..3

InstantInputs == 0..(4 * DayTicks - 1)

DaysFns == {"performDailyMonitoring", "checkAndSendAlerts"}

InitDays ==
    /\ armed = {}
    /\ pending = {}
    /\ resp = NoResponse
    /\ reqs = 0
    /\ serial = 3 * NumDomains + 1
    /\ now \in InstantInputs
    /\ due = {}
    /\ faults = 0
    /\ down = DomainIds
    /\ hostValidTo = 45 * DayTicks
    /\ \E date \in DateInputs :
         domains = [d \in DomainIds |->
                      [user_id |-> OwnerOf(d), expiry_date |-> date, status |-> "active"]]
    /\ alerts = UNION {{RuleOf(d, t, 2 * DefaultThreshold) : t \in RuleTypesOf(d)} :
                        d \in DomainIds}
    /\ certs = {}
    /\ log = EmptyBag
    /\ pc = [j \in Jobs |-> "idle"]
    /\ rows = [j \in Jobs |-> <<>>]
    /\ days = [j \in Jobs |-> 0]
    /\ contacts = {}
    /\ errors = {}
    /\ lastDispatch = NoDispatch
    /\ \E fn \in DaysFns :
         probe = [fn |-> fn, host |-> PlainHost, net |-> NetOf(1), result |-> Unsettled]

\* const daysUntilExpiry = Math.ceil(...) in the loop of the daily sweep.
DaysDaily ==
    /\ probe.fn = "performDailyMonitoring"
    /\ probe.result.settled = "pending"
    /\ probe' = [probe EXCEPT !.result = Resolved(DaysUntil(domains[1].expiry_date, now))]
    /\ UNCHANGED <<now, due, faults, down, hostValidTo, domains, alerts, certs,
                   log, pc, rows, days, contacts, errors, armed, lastDispatch,
                   pending, resp, reqs, serial>>

\* const daysUntilExpiry = Math.ceil(...) in the first loop of the alert job.
DaysAlert ==
    /\ probe.fn = "checkAndSendAlerts"
    /\ probe.result.settled = "pending"
    /\ probe' = [probe EXCEPT !.result = Resolved(DaysUntil(domains[1].expiry_date, now))]
    /\ UNCHANGED <<now, due, faults, down, hostValidTo, domains, alerts, certs,
                   log, pc, rows, days, contacts, errors, armed, lastDispatch,
                   pending, resp, reqs, serial>>

NextDays == DaysDaily \/ DaysAlert

SpecDays == InitDays /\ [][NextDays]_vars

SpecProbe == InitProbe /\ [][NextProbe]_vars

ResultsOf(call) ==
    CASE call.fn = "sendDomainExpiryAlert" ->
           sendDomainExpiryAlert(call.domain, call.user, 1, call.emailOk, call.smsOk)
      [] call.fn = "sendSSLExpiryAlert" ->
           sendSSLExpiryAlert(call.domain, call.domain, call.user, 1,
                              call.emailOk, call.smsOk)
      [] OTHER ->
           sendDomainDowntimeAlert(call.domain, call.user, call.emailOk, call.smsOk)

\* The call returns its results array.
Dispatch ==
    /\ lastDispatch.fn \in DispatchFns
    /\ ~lastDispatch.returned
    /\ lastDispatch' = [lastDispatch EXCEPT !.returned = TRUE,
                                            !.results = ResultsOf(lastDispatch)]
    /\ UNCHANGED <<now, due, faults, down, hostValidTo, domains, alerts, certs,
                   log, pc, rows, days, contacts, errors, armed, api>>

NextDispatch == Dispatch

SpecDispatch == InitDispatch /\ [][NextDispatch]_vars

\* ------------------------------------------------------------- properties
SweepJobs == {"daily", "ssl", "uptime"}

\* The target (domain id) a result row of a job stands for.
TargetOf(job, r) == IF r.domain_id = Undefined THEN r.id ELSE r.domain_id

\* The log entries of a (target, type) pair.
EntriesOf(target, type) ==
    {e \in BagToSet(log) : e.domain_id = target /\ e.type = type}

Apart(t1, t2) == t1 - t2 >= CooldownTicks \/ t2 - t1 >= CooldownTicks

\* C1: whatever the interleaving of the daily sweep and the alert-matching
\* sweep, a target has at most one domain_expiry log entry in any 24-hour
\* window: an entry occurs once, and two entries of the same target are at
\* least 24 hours apart.
C1_OneDomainExpiryEntryPerWindow ==
    \A d \in DomainIds :
      \A e1 \in EntriesOf(d, "domain_expiry") :
        /\ CopiesIn(e1, log) = 1
        /\ \A e2 \in EntriesOf(d, "domain_expiry") :
             e1 = e2 \/ Apart(e1.sent_at, e2.sent_at)

\* C2: in the alert-matching sweep, a record of a domain_expiry or
\* ssl_expiry rule whose target has a log entry of the same type newer than
\* 24 hours when the gate is asked never goes on to the dispatch and the
\* log insert.
C2_GateSuppresses ==
    [][/\ (/\ pc["alert"] = "loop"
           /\ RecentNotification(TargetOf("alert", Head(rows["alert"])),
                                 "domain_expiry") # {})
          => pc'["alert"] # "send"
       /\ (/\ pc["alert"] = "sslloop"
           /\ RecentNotification(TargetOf("alert", Head(rows["alert"])),
                                 "ssl_expiry") # {})
          => pc'["alert"] # "sslsend"]_vars

\* C3: for a target that stays down, the reachability sweeps contact a
\* channel at most once and append at most one domain_downtime entry in any
\* 24-hour window.
C3_OneDowntimeAlertPerWindow ==
    /\ \A c1, c2 \in contacts :
         (/\ c1.type = "domain_downtime" /\ c2.type = "domain_downtime"
          /\ c1.target = c2.target /\ c1.channel = c2.channel)
         => (c1.at = c2.at \/ Apart(c1.at, c2.at))
    /\ \A d \in DomainIds :
         \A e1, e2 \in EntriesOf(d, "domain_downtime") :
           CopiesIn(e1, log) = 1 /\ (e1 = e2 \/ Apart(e1.sent_at, e2.sent_at))

\* C4: an invocation of the alert-matching sweep never returns out of its
\* domain_expiry loop (the ssl_expiry records are still to come), nor out
\* of its ssl_expiry loop while records are left.
C4_AlertSweepContinues ==
    [][/\ pc["alert"] \in {"loop", "send"} => pc'["alert"] # "idle"
       /\ (pc["alert"] \in {"sslloop", "sslsend"} /\ Len(rows["alert"]) > 1)
          => pc'["alert"] # "idle"]_vars

C6_OnlyEnabledChannels == \A c \in contacts : c.enabled

C8_ExpiryAlertSent ==
    [][(pc["alert"] # "sslload" /\ pc'["alert"] = "sslload") =>
         \A a \in alerts :
           (/\ a.type = "domain_expiry"
            /\ a.domain_id \in ActiveIds
            /\ domains[a.domain_id].expiry_date > Today
            /\ DaysUntil(domains[a.domain_id].expiry_date, now) > 0
            /\ DaysUntil(domains[a.domain_id].expiry_date, now) <= a.days_before_expiry)
           => \E e \in BagToSet(log') : /\ e.domain_id = a.domain_id
                                        /\ e.type = "domain_expiry"
                                        /\ e.status = "sent"
                                        /\ e.sent_at > now - CooldownTicks]_vars

\* Whether this step contacts a channel or appends a log entry of the type.
Alerted(type) ==
    \/ \E c \in contacts' \ contacts : c.type = type
    \/ \E e \in BagToSet(log') : e.type = type /\ CopiesIn(e, log') > CopiesIn(e, log)

C10_ExpiredExactlyWhenPassed ==
    /\ [][\A d \in DomainIds :
            LET daily == /\ pc["daily"] = "loop"
                         /\ Head(rows["daily"]).id = d
                         /\ rows'["daily"] # rows["daily"]
                passed == DaysUntil(domains[d].expiry_date, now) <= 0
            IN  domains[d].status = "active" =>
                  /\ domains'[d].status \in {"active", "expired"}
                  /\ domains'[d].status = "expired" <=>
                       (daily /\ passed /\ faults' = faults)]_vars
    /\ \A d \in DomainIds :
         (domains[d].status = "active" /\ DaysUntil(domains[d].expiry_date, now) <= 0)
           ~> (domains[d].status = "expired")

\* The daily sweep has run: the target whose date has passed is expired,
\* another one with days remaining is still active.
C10_Witness ==
    \E d, e \in DomainIds :
      /\ pc["daily"] = "idle"
      /\ domains[d].status = "expired"
      /\ DaysUntil(domains[d].expiry_date, now) <= 0
      /\ domains[e].status = "active"
      /\ DaysUntil(domains[e].expiry_date, now) > 0

\* The state of a job: stopped, scheduled (timer armed), running (sweep
\* body executing).
JobState(j) ==
    IF pc[j] # "idle" THEN "running"
    ELSE IF j \in armed THEN "scheduled" ELSE "stopped"

\* This step is the cron callback of job j being called.
Fires(j) == j \in due /\ due' = due \ {j} /\ armed' = armed

\* C11: every job starts stopped; a sweep begins only for a job whose timer
\* is armed, so none before startMonitoring and none after stopMonitoring
\* until the next startMonitoring; the four timers are armed together and
\* disarmed together; stopMonitoring leaves a sweep in flight as it is, and
\* every sweep in flight runs to its end.
C11_StartStop ==
    /\ \A j \in Jobs : JobState(j) = "stopped"
    /\ [][/\ \A j \in Jobs : Fires(j) => j \in armed
          /\ \A j \in Jobs : (pc[j] = "idle" /\ pc'[j] # "idle") => Fires(j)
          /\ armed' # armed => (armed' = Jobs \/ armed' = {})
          /\ (armed # {} /\ armed' = {}) => (due' = {} /\ pc' = pc /\ rows' = rows)]_vars
    /\ [](due \subseteq armed)
    /\ \A j \in Jobs : (pc[j] # "idle") ~> (pc[j] = "idle")

\* The scheduler was started and stopped again while a sweep was in flight,
\* and that sweep has since moved on to its second target.
C11_Witness ==
    \E j \in Jobs :
      /\ armed = {}
      /\ pc[j] = "loop"
      /\ Len(rows[j]) = 1
      /\ TargetOf(j, Head(rows[j])) = 2

\* C12: whatever fails, the hosting process is never terminated: no job is
\* ever found exited.
C12_ProcessSurvives == \A j \in Jobs : pc[j] # "exited"

\* The handshake of a settled certificate probe did not hand over a usable
\* certificate: the URL did not parse, the response had none, the request
\* timed out, or the request failed and the TLS fallback got none.
NoCertificate(p) ==
    \/ ~p.host.parses
    \/ p.net.request = "response" /\ ~p.net.cert
    \/ p.net.request = "timeout"
    \/ p.net.request = "error" /\ p.net.tls # "cert"

\* C13: a certificate probe that obtains no usable certificate settles to
\* the one typed 'certificate unavailable' outcome, never to the transport's
\* own error.
C13_TypedUnavailable ==
    (probe.fn = "checkSSLCertificate" /\ probe.result.settled # "pending"
       /\ NoCertificate(probe))
        => probe.result = Rejected("CertificateUnavailable")

\* C14: whatever the single request does, and whatever the stored name is,
\* the reachability probe resolves to a boolean, true exactly when a response
\* with a status in 200..399 arrived, and never rejects.
C14_AlwaysBoolean ==
    (probe.fn = "checkDomainUptime" /\ probe.result.settled # "pending")
        => /\ probe.result.settled = "resolved"
           /\ probe.result.value = (/\ probe.host.parses
                                    /\ probe.net.request = "response"
                                    /\ probe.net.status \in 200..399)

\* The step in which job j fires and its first query fails.
LoadFails(j) ==
    /\ pc[j] = "idle"
    /\ j \in due
    /\ j \notin due'
    /\ faults' = faults + 1

\* C17: when the first query of a sweep fails, the invocation ends there: the
\* failure is logged, nothing is probed, dispatched, logged to the
\* notification log or stored, the rows are not loaded a second time, and the
\* job is scheduled again, free to start at its next firing.
C17_LoadFailureEndsSweep ==
    [][\A j \in Jobs :
         LoadFails(j) =>
           /\ [job |-> j, target |-> 0] \in errors'
           /\ pc' = pc
           /\ rows' = rows
           /\ log' = log
           /\ contacts' = contacts
           /\ lastDispatch' = lastDispatch
           /\ domains' = domains
           /\ certs' = certs
           /\ alerts' = alerts
           /\ JobState(j)' = "scheduled"]_vars

\* The load of the uptime sweep failed in an earlier firing and the sweep of
\* a later firing is at work on its rows.
C17_Witness ==
    /\ [job |-> "uptime", target |-> 0] \in errors
    /\ pc["uptime"] = "loop"
    /\ now > 0

\* The step with which the cron callback of job j starts its sweep.
StartOf(j) ==
    CASE j = "daily" -> DailyStart
      [] j = "uptime" -> UptimeStart
      [] j = "ssl" -> SslStart
      [] OTHER -> AlertStart

\* C18: a job whose timer has fired and whose own sweep is not running can
\* start at once, whatever the other three jobs are doing (running, slow,
\* failed), and a step of one job moves no other job.
C18_JobsIndependent ==
    /\ [](\A j \in due : pc[j] = "idle" => ENABLED StartOf(j))
    /\ [][\A j, k \in Jobs :
            (j # k /\ pc'[j] # pc[j]) => (pc'[k] = pc[k] /\ rows'[k] = rows[k])]_vars

\* The daily sweep that started in tick 0 is still at its rows in tick 1,
\* the alert job is running too, and the uptime timer of tick 1 has fired.
C18_Witness ==
    /\ now = 1
    /\ pc["daily"] = "loop"
    /\ pc["alert"] # "idle"
    /\ "uptime" \in due
    /\ pc["uptime"] = "idle"

\* A response is sent in this step.
Answered == resp' # resp

CertsOf(table, d) == {s \in table : s.domain_id = d}

\* C15: no target ever has two certificate records, and a POST /ssl/check
\* whose probe obtained the certificate answers 200 and leaves the target
\* with exactly one record, which carries the data probed.
C15_OneCertificatePerTarget ==
    /\ [](\A d \in DomainIds : Cardinality(CertsOf(certs, d)) <= 1)
    /\ [][(/\ Answered
            /\ resp'.req.route = "POST /ssl/check/:domainId"
            /\ resp'.probed = "certificate")
             => /\ resp'.status = 200
                /\ Cardinality(CertsOf(certs', resp'.req.target)) = 1
                /\ \A s \in CertsOf(certs', resp'.req.target) :
                      s.valid_until = DateOf(hostValidTo)]_vars

\* C16: no target ever has two alert rules of the same type, and a create
\* for a pair that has a rule is answered 400 and changes no rule.
C16_OneRulePerType ==
    /\ [](\A a, b \in alerts :
            (a.domain_id = b.domain_id /\ a.type = b.type) => a = b)
    /\ [][(/\ reqs' = reqs + 1
            /\ Answered
            /\ resp'.req.route = "POST /alerts"
            /\ \E a \in alerts : /\ a.domain_id = resp'.req.target
                                  /\ a.type = resp'.req.body[1].type
                                  /\ a.user_id = resp'.req.user
            /\ optionalIsInt(resp'.req.body[1].days))
             => (resp'.status = 400 /\ alerts' = alerts)]_vars

\* The entries of the later log that the earlier log has fewer copies of.
Added(before, after) ==
    {e \in BagToSet(after) : CopiesIn(e, after) > CopiesIn(e, before)}

\* C19: no step of a sweep or of a request removes or changes an entry of
\* the notification log, and an entry added carries a sent_at that is not
\* before that of any entry already there.
C19_LogAppendOnly ==
    [][/\ \A e \in BagToSet(log) : CopiesIn(e, log') >= CopiesIn(e, log)
       /\ \A e \in Added(log, log'), f \in BagToSet(log) : e.sent_at >= f.sent_at]_vars

\* The log holds an entry of the test route and an entry a sweep wrote at a
\* later tick.
C19_Witness ==
    \E e, f \in BagToSet(log) :
      /\ e.method = "test"
      /\ f.method = "automated"
      /\ f.sent_at > e.sent_at

\* The request carries a daysBeforeExpiry outside 1..90.
OutOfRange(req) ==
    \E i \in 1..Len(req.body) : \E v \in req.body[i].days : v < 1 \/ v > MaxThreshold

\* C20: every stored rule has a days_before_expiry in 1..90; a rule created
\* without the field gets 30; a create, update or bulk update carrying a
\* value outside the range is answered 400 and stores nothing.
C20_ThresholdInRange ==
    /\ [](\A a \in alerts : a.days_before_expiry \in 1..MaxThreshold)
    /\ [][/\ (Answered /\ resp'.req.route = "POST /alerts" /\ resp'.status = 201)
             => \A a \in alerts' \ alerts :
                  a.days_before_expiry = OrDefault(resp'.req.body[1].days)
          /\ (Answered /\ OutOfRange(resp'.req))
             => (resp'.status = 400 /\ alerts' = alerts /\ pending' = pending)]_vars

\* The last request of the run, a create that left the field out, has
\* stored its rule with 30.
C20_Witness ==
    /\ resp.status = 201
    /\ resp.n = MaxRequests
    /\ resp.req.body[1].days = {}
    /\ \E a \in alerts : a.id = 3 * NumDomains + 1 /\ a.days_before_expiry = DefaultThreshold

\* C21: whichever probe holds the certificate, its status is 'expired'
\* exactly when valid_to is before now, 'expiring_soon' exactly when valid_to
\* is at or after now and less than 30 days ahead, and 'valid' otherwise.
C21_StatusClassification ==
    probe.result.settled = "resolved" =>
      /\ probe.result.value \in {"expired", "expiring_soon", "valid"}
      /\ probe.result.value = "expired" <=> hostValidTo < now
      /\ probe.result.value = "expiring_soon"
            <=> (now <= hostValidTo /\ hostValidTo < now + 30 * DayTicks)

\* The fallback classified a certificate that ends at this very instant.
C21_Witness ==
    /\ probe.fn = "checkWithTLS"
    /\ probe.result.settled = "resolved"
    /\ hostValidTo = now
    /\ now > 0

\* C22: the days remaining a sweep computes for a date are negative exactly
\* when the date is before today's date, and 0 when the date is today's.
C22_NegativeIffPast ==
    (probe.fn \in DaysFns /\ probe.result.settled = "resolved") =>
      /\ probe.result.value < 0 <=> domains[1].expiry_date < Today
      /\ domains[1].expiry_date = Today => probe.result.value = 0

\* The days were computed for today's date, later than midnight.
C22_Witness ==
    /\ probe.fn \in DaysFns
    /\ probe.result.settled = "resolved"
    /\ domains[1].expiry_date = Today
    /\ now % DayTicks # 0

\* C23: a step that appends an ssl_expiry entry with status 'sent' for a
\* recipient with an email address has attempted an email in its dispatch,
\* and an SMS when the recipient has a phone number too.
C23_SslEntryMeansAttempt ==
    [][\A e \in Added(log, log') :
         (e.type = "ssl_expiry" /\ e.status = "sent" /\ UserOf(e.user_id).email) =>
            /\ \E c \in contacts' : /\ c.type = "ssl_expiry"
                                     /\ c.channel = "email"
                                     /\ c.at = now
            /\ UserOf(e.user_id).phone =>
                 \E c \in contacts' : /\ c.type = "ssl_expiry"
                                      /\ c.channel = "sms"
                                      /\ c.at = now]_vars

\* C24: the ssl_expiry entry the alert job appends after a dispatch carries
\* the id of the target whose certificate the record is about, and the job
\* passes over a record only when an ssl_expiry entry younger than the
\* cooldown exists for that very target.
C24_KeyedByTarget ==
    /\ [][(pc["alert"] = "sslsend" /\ pc'["alert"] # "sslsend") =>
            \A e \in Added(log, log') :
              e.type = "ssl_expiry" => e.domain_id = Head(rows["alert"]).domain_id]_vars
    /\ [][(/\ pc["alert"] = "sslloop"
            /\ faults' = faults
            /\ rows'["alert"] # rows["alert"]
            /\ DaysUntil(Head(rows["alert"]).valid_until, now)
                  <= Head(rows["alert"]).days_before_expiry)
             => RecentNotification(Head(rows["alert"]).domain_id, "ssl_expiry") # {}]_vars

\* The alert type the alert job is at work on, and the days remaining of
\* the record at the head of its rows.
TypeAt(p) == IF p \in {"loop", "send"} THEN "domain_expiry" ELSE "ssl_expiry"

DaysOfHead ==
    LET record == Head(rows["alert"])
    IN  IF pc["alert"] = "loop" THEN DaysUntil(record.expiry_date, now)
        ELSE DaysUntil(record.valid_until, now)

\* C25: when the alert job comes to a record whose condition holds
\* (0 < daysRemaining <= threshold) and whose (target, type) has log entries
\* but none younger than the cooldown, it goes on to dispatch, and the
\* dispatch step appends a new entry for that (target, type).
C25_CooldownLapses ==
    /\ [][(/\ pc["alert"] \in {"loop", "sslloop"}
            /\ (pc'["alert"] # pc["alert"] \/ rows'["alert"] # rows["alert"])
            /\ faults' = faults
            /\ DaysOfHead > 0
            /\ DaysOfHead <= Head(rows["alert"]).days_before_expiry
            /\ EntriesOf(TargetOf("alert", Head(rows["alert"])), TypeAt(pc["alert"])) # {}
            /\ RecentNotification(TargetOf("alert", Head(rows["alert"])),
                                  TypeAt(pc["alert"])) = {})
             => pc'["alert"] \in {"send", "sslsend"}]_vars
    /\ [][(/\ pc["alert"] \in {"send", "sslsend"}
            /\ pc'["alert"] # pc["alert"]
            /\ faults' = faults)
             => \E e \in Added(log, log') :
                  /\ e.domain_id = TargetOf("alert", Head(rows["alert"]))
                  /\ e.type = TypeAt(pc["alert"])
                  /\ e.sent_at = now]_vars

\* C26: a step of a sweep that contacts a channel or appends a log entry
\* for domain_expiry or ssl_expiry is an iteration over a record with 30
\* days or fewer remaining, whatever the threshold of its rule.
C26_NeverBeyondWindow ==
    [][/\ Alerted("domain_expiry") =>
            \/ /\ pc["daily"] = "loop" /\ rows'["daily"] # rows["daily"]
               /\ DaysUntil(Head(rows["daily"]).expiry_date, now) <= AlertWindowDays
            \/ /\ pc["alert"] = "send" /\ pc'["alert"] # "send"
               /\ DaysUntil(Head(rows["alert"]).expiry_date, now) <= AlertWindowDays
       /\ Alerted("ssl_expiry") =>
            \/ /\ pc["ssl"] = "loop" /\ rows'["ssl"] # rows["ssl"]
               /\ DaysUntil(DateOf(hostValidTo), now) <= AlertWindowDays
            \/ /\ pc["alert"] = "sslsend" /\ pc'["alert"] # "sslsend"
               /\ DaysUntil(Head(rows["alert"]).valid_until, now) <= AlertWindowDays]_vars

\* The four jobs ran undisturbed over domain 1, whose expiry date and
\* certificate are 45 days ahead and whose rules have a threshold of 60, and
\* nothing was sent or logged for an expiry.
C26_Witness ==
    /\ domains[1].expiry_date = 45
    /\ hostValidTo = 45 * DayTicks
    /\ \A a \in alerts : a.days_before_expiry = 2 * DefaultThreshold
    /\ \A j \in Jobs : j \notin due /\ pc[j] = "idle"
    /\ errors = {}
    /\ \A e \in BagToSet(log) : e.type \notin {"domain_expiry", "ssl_expiry"}
    /\ \A c \in contacts : c.type \notin {"domain_expiry", "ssl_expiry"}

\* Job j takes a step of its loop over the record at the head of its rows.
Stepped(j) ==
    /\ pc[j] # "idle"
    /\ rows[j] # <<>>
    /\ (pc'[j] # pc[j] \/ rows'[j] # rows[j])

\* The step of job j probes a host, contacts a channel, appends a log entry
\* or changes a stored row.
Acts(j) ==
    /\ Stepped(j)
    /\ \/ j \in {"uptime", "ssl"}
       \/ contacts' # contacts
       \/ log' # log
       \/ domains' # domains
       \/ certs' # certs

\* C27: a step in which a sweep probes, alerts, logs or changes a stored
\* field is a step over a target whose status is 'active', and every status
\* change is from active to expired.
C27_OnlyActiveTargets ==
    [][/\ \A j \in Jobs :
            Acts(j) => domains[TargetOf(j, Head(rows[j]))].status = "active"
       /\ \A d \in DOMAIN domains :
            domains'[d].status # domains[d].status =>
              domains[d].status = "active" /\ domains'[d].status = "expired"]_vars

\* C28: a bulk request answered with 400, 404 or 500 leaves the stored alert
\* rules of its domain as they were before the request.
C28_BulkAllOrNothing ==
    [][(/\ resp' # resp
        /\ resp'.req.route = "PUT /alerts/domain/:domainId/bulk"
        /\ resp'.status \in {400, 404, 500})
          => {a \in alerts' : a.domain_id = resp'.req.target}
               = {a \in alerts : a.domain_id = resp'.req.target}]_vars

\* The records user u owns: domains, their certificate records, alert rules
\* and log entries.
Owned(u) ==
    [domains |-> {<<d, domains[d]>> : d \in {x \in DOMAIN domains : domains[x].user_id = u}},
     certs   |-> {s \in certs : s.domain_id \in DOMAIN domains
                                  /\ domains[s.domain_id].user_id = u},
     alerts  |-> {a \in alerts : a.user_id = u},
     log     |-> {<<e, CopiesIn(e, log)>> : e \in {x \in BagToSet(log) : x.user_id = u}}]

AlertRoutes == {"PUT /alerts/:id", "DELETE /alerts/:id", "POST /alerts/test/:id"}

\* The request names a domain or an alert rule of another user.
Foreign(req) ==
    IF req.route \in AlertRoutes
    THEN \E a \in alerts : a.id = req.target /\ a.user_id # req.user
    ELSE req.target \in DOMAIN domains /\ domains[req.target].user_id # req.user

\* C29: an answered request of user A leaves the records of every other
\* user B as they were, and a request of A that names a record of B is
\* refused: 404, or 400 when its body is rejected before the lookup.
C29_TenantIsolation ==
    [][resp' # resp =>
         /\ \A u \in UserIds \ {resp'.req.user} : Owned(u)' = Owned(u)
         /\ Foreign(resp'.req) => resp'.status \in {400, 404}]_vars

\* C30: DELETE /domains/:id by the owner answers 200 and removes the domain,
\* its certificate record and its alert rules.
C30_DeleteSucceeds ==
    [][(/\ resp' # resp
        /\ resp'.req.route = "DELETE /domains/:id"
        /\ OwnsDomain(resp'.req.user, resp'.req.target))
          => /\ resp'.status = 200
             /\ resp'.req.target \notin DOMAIN domains'
             /\ \A s \in certs' : s.domain_id # resp'.req.target
             /\ \A a \in alerts' : a.domain_id # resp'.req.target]_vars

====
